---- MODULE Spec2Model ----
(***************************************************************************)
(* A model of cyacd2bin.py: the conversion of a .cyacd firmware-update     *)
(* file (one hex header line, then one hex line per flash row) into a flat *)
(* binary image.                                                           *)
(*                                                                         *)
(* Text is modelled as a sequence of one-character strings, binary data as *)
(* a sequence of integers in 0..255.  A parse either returns               *)
(* [ok |-> TRUE, value |-> v] or raises, modelled as                       *)
(* [ok |-> FALSE, error |-> name of the exception].                        *)
(*                                                                         *)
(* The construct library is modelled as of construct >= 2.9:               *)
(*   - Construct.parse reads from the start of the data and ignores what   *)
(*     follows the last field;                                             *)
(*   - a field read past the end of the data raises StreamError;           *)
(*   - Enum parses a value it has no name for as the bare integer;         *)
(*   - Checksum raises ChecksumError when the byte read differs from the   *)
(*     hash of the bytes RawCopy has captured.                             *)
(***************************************************************************)
EXTENDS Integers, Sequences, FiniteSets, TLC

VARIABLES
    pc,                \* position of parse_cyacd: "header", "rows", "write", "done", "aborted"
    default_bit_value, \* the --default-bit-value argument, "0" or "1"
    input_read,        \* the lines of input_file read so far (the file before its position)
    flash_memory,      \* the dict array_id -> (dict row_id -> data), in insertion order
    output_file,       \* [opened, closed, data]: the file at output_path
    arrays_written,    \* how many arrays of flash_memory the writing loop has written
    call               \* the latest call of a function of the module: its arguments and its result

vars == <<pc, default_bit_value, input_read, flash_memory, output_file, arrays_written, call>>

----------------------------------------------------------------------------
(* Bounds *)

\* Longest byte sequence handed to the checksum function.
MaxChecksumLen == 3
\* Longest data field of the records the record decoder is called on.
MaxDataLen == 2
\* Most bytes in a header line handed to the header decoder.
MaxHeaderBytes == 7
\* Largest row id in the lists handed to _get_compact_rows_string.
MaxSummaryRowId == 11
\* Most row lines parse_cyacd reads in one run.
MaxLines == 3

----------------------------------------------------------------------------
(* Sequences *)

\* sum(s), by halves to keep the evaluation shallow on long sequences.
RECURSIVE Sum(_)
Sum(s) ==
    IF s = <<>> THEN 0
    ELSE IF Len(s) = 1 THEN s[1]
    ELSE Sum(SubSeq(s, 1, Len(s) \div 2)) + Sum(SubSeq(s, (Len(s) \div 2) + 1, Len(s)))

\* The concatenation of a sequence of sequences, by halves.
RECURSIVE Concat(_)
Concat(ss) ==
    IF ss = <<>> THEN <<>>
    ELSE IF Len(ss) = 1 THEN ss[1]
    ELSE Concat(SubSeq(ss, 1, Len(ss) \div 2)) \o Concat(SubSeq(ss, (Len(ss) \div 2) + 1, Len(ss)))

Repeat(x, n) == [i \in 1..n |-> x]

Last(s) == s[Len(s)]

\* All sequences over S of length lo..hi.
SeqsOf(S, lo, hi) == UNION {[1..n -> S] : n \in lo..hi}

----------------------------------------------------------------------------
(* bytes.strip, bytes.lstrip, binascii.unhexlify *)

\* ASCII whitespace, as bytes.strip() understands it (the vertical tab, which
\* a TLA+ string cannot hold, is left out of the inputs).
Whitespace == {" ", "\t", "\n", "\r", "\f"}

RECURSIVE lstrip(_, _)
lstrip(s, chars) ==
    IF s # <<>> /\ Head(s) \in chars THEN lstrip(Tail(s), chars) ELSE s

RECURSIVE rstrip(_, _)
rstrip(s, chars) ==
    IF s # <<>> /\ Last(s) \in chars THEN rstrip(SubSeq(s, 1, Len(s) - 1), chars) ELSE s

strip(s) == rstrip(lstrip(s, Whitespace), Whitespace)

HexLower == <<"0", "1", "2", "3", "4", "5", "6", "7", "8", "9", "a", "b", "c", "d", "e", "f">>
HexUpper == <<"0", "1", "2", "3", "4", "5", "6", "7", "8", "9", "A", "B", "C", "D", "E", "F">>

IsHexDigit(c) == \E v \in 0..15 : HexLower[v + 1] = c \/ HexUpper[v + 1] = c

HexValue(c) == CHOOSE v \in 0..15 : HexLower[v + 1] = c \/ HexUpper[v + 1] = c

unhexlify(hexstr) ==
    IF Len(hexstr) % 2 # 0 THEN [ok |-> FALSE, error |-> "binascii.Error"]
    ELSE IF \E i \in 1..Len(hexstr) : ~IsHexDigit(hexstr[i])
    THEN [ok |-> FALSE, error |-> "binascii.Error"]
    ELSE [ok |-> TRUE,
          value |-> [i \in 1..(Len(hexstr) \div 2) |->
                        16 * HexValue(hexstr[2 * i - 1]) + HexValue(hexstr[2 * i])]]

----------------------------------------------------------------------------
(* The construct schemas *)

\* Int16ub read as little-endian.
Int16ul(raw, at) == raw[at] + 256 * raw[at + 1]

Int16ub(raw, at) == 256 * raw[at] + raw[at + 1]

\* The value 65536 * hi + lo, held as <<hi, lo>>: it may exceed the model checker's integers.
Int32ub(raw, at) == <<Int16ub(raw, at), Int16ub(raw, at + 2)>>

\* Enum(Byte, ...): the name of a known value, and the bare integer otherwise.
CHECKSUM_TYPE_FLAGS_ENUM(tag) ==
    [intvalue |-> tag,
     name |-> IF tag = 0 THEN "2's complement summation"
              ELSE IF tag = 1 THEN "CRC-16-CCITT"
              ELSE ""]

\* CYACD_HEADER_STRUCT.parse(raw)
CYACD_HEADER_STRUCT(raw) ==
    IF Len(raw) < 6 THEN [ok |-> FALSE, error |-> "StreamError"]
    ELSE [ok |-> TRUE,
          value |-> [silicon_id |-> Int32ub(raw, 1),
                     silicon_revision |-> raw[5],
                     checksum_type |-> CHECKSUM_TYPE_FLAGS_ENUM(raw[6])]]

\* The hash function without its final reduction: 0x100 when the sum wraps to zero.
checksum_unwrapped(data) == 256 - (Sum(data) % 256)

\* The hash function of the Checksum field.
checksum(data) == (256 - (Sum(data) % 256)) % 256

\* FLASH_ROW_STRUCT.parse(raw)
FLASH_ROW_STRUCT(raw) ==
    IF Len(raw) < 5 THEN [ok |-> FALSE, error |-> "StreamError"]
    ELSE LET data_length == Int16ub(raw, 4)
         IN  IF Len(raw) < 5 + data_length THEN [ok |-> FALSE, error |-> "StreamError"]
             ELSE IF Len(raw) < 5 + data_length + 1 THEN [ok |-> FALSE, error |-> "StreamError"]
             ELSE IF raw[5 + data_length + 1] # checksum(SubSeq(raw, 1, 5 + data_length))
             THEN [ok |-> FALSE, error |-> "ChecksumError"]
             ELSE [ok |-> TRUE,
                   value |-> [array_id |-> raw[1],
                              row_id |-> Int16ub(raw, 2),
                              data_length |-> data_length,
                              data |-> SubSeq(raw, 6, 5 + data_length)]]

print_header(ascii_header) ==
    LET unhexed == unhexlify(ascii_header)
    IN  IF ~unhexed.ok THEN unhexed ELSE CYACD_HEADER_STRUCT(unhexed.value)

parse_flash_row(ascii_line) ==
    LET unhexed == unhexlify(ascii_line)
    IN  IF ~unhexed.ok THEN unhexed ELSE FLASH_ROW_STRUCT(unhexed.value)

----------------------------------------------------------------------------
(* Python dicts: a dict is the sequence of its [key, value] items in         *)
(* insertion order; assigning to a present key keeps the key's position.     *)

dict_keys(d) == [i \in 1..Len(d) |-> d[i].key]

dict_has(d, k) == \E i \in 1..Len(d) : d[i].key = k

dict_get(d, k) == d[CHOOSE i \in 1..Len(d) : d[i].key = k].value

dict_set(d, k, v) ==
    IF dict_has(d, k)
    THEN [i \in 1..Len(d) |-> IF d[i].key = k THEN [key |-> k, value |-> v] ELSE d[i]]
    ELSE Append(d, [key |-> k, value |-> v])

SeqToSet(s) == {s[i] : i \in 1..Len(s)}

Max(S) == CHOOSE x \in S : \A y \in S : y <= x

\* sorted(): insertion sort of a list of integers.
RECURSIVE insert_sorted(_, _)
insert_sorted(s, x) ==
    IF s = <<>> THEN <<x>>
    ELSE IF x < Head(s) THEN <<x>> \o s
    ELSE <<Head(s)>> \o insert_sorted(Tail(s), x)

RECURSIVE sorted(_)
sorted(s) == IF s = <<>> THEN <<>> ELSE insert_sorted(sorted(SubSeq(s, 1, Len(s) - 1)), Last(s))

\* f'{n}' for an integer n >= 0.
RECURSIVE format_int(_)
format_int(n) ==
    IF n < 10 THEN <<HexLower[n + 1]>>
    ELSE format_int(n \div 10) \o <<HexLower[(n % 10) + 1]>>

\* sep.join(strings)
RECURSIVE join(_, _)
join(sep, strings) ==
    IF strings = <<>> THEN <<>>
    ELSE IF Len(strings) = 1 THEN strings[1]
    ELSE strings[1] \o sep \o join(sep, Tail(strings))

----------------------------------------------------------------------------
(* The memory assembler and the image writer *)

\* _add_row_to_array keeping the data a row already has.
add_row_keeps_first(memory, array_id, row_id, row_data) ==
    LET with_array == IF ~dict_has(memory, array_id)
                      THEN dict_set(memory, array_id, <<>>)
                      ELSE memory
        flash_array == dict_get(with_array, array_id)
    IN  IF dict_has(flash_array, row_id) THEN with_array
        ELSE dict_set(with_array, array_id, dict_set(flash_array, row_id, row_data))

add_row_to_array(memory, array_id, row_id, row_data) ==
    LET with_array == IF ~dict_has(memory, array_id)
                      THEN dict_set(memory, array_id, <<>>)
                      ELSE memory
    IN  dict_set(with_array, array_id,
                 dict_set(dict_get(with_array, array_id), row_id, row_data))

interval_to_string(start, end) ==
    IF start = end THEN format_int(start)
    ELSE format_int(start) \o <<"-">> \o format_int(end)

\* The loop of _get_compact_rows_string from index i (1-based) of the sorted list on.
RECURSIVE compact_rows_loop(_, _, _, _)
compact_rows_loop(row_ids, i, last_interval_start, interval_strings) ==
    IF i > Len(row_ids)
    THEN Append(interval_strings, interval_to_string(last_interval_start, Last(row_ids)))
    ELSE IF row_ids[i] > row_ids[i - 1] + 1
    THEN compact_rows_loop(row_ids, i + 1, row_ids[i],
             Append(interval_strings, interval_to_string(last_interval_start, row_ids[i - 1])))
    ELSE compact_rows_loop(row_ids, i + 1, last_interval_start, interval_strings)

\* _get_compact_rows_string without its sorted().
get_compact_rows_string_unsorted(row_ids) ==
    join(<<",", " ">>, compact_rows_loop(row_ids, 2, row_ids[1], <<>>))

\* For a non-empty list of distinct row ids (the function's own assertion).
get_compact_rows_string(row_ids) ==
    LET ids == sorted(row_ids)
    IN  join(<<",", " ">>, compact_rows_loop(ids, 2, ids[1], <<>>))

\* The bytes _write_flash_array_to_file writes to output_file, in order.
RECURSIVE write_rows(_, _, _, _, _)
write_rows(flash_array, row_id, number_of_rows, row_length, bit) ==
    IF row_id >= number_of_rows THEN <<>>
    ELSE (IF dict_has(flash_array, row_id)
          THEN dict_get(flash_array, row_id)
          ELSE Repeat(IF bit = "0" THEN 0 ELSE 255, row_length))
         \o write_rows(flash_array, row_id + 1, number_of_rows, row_length, bit)

\* _write_flash_array_to_file with range(max_row_number): the last row is not written.
write_flash_array_one_row_short(flash_array, bit) ==
    LET max_row_number == Max(SeqToSet(dict_keys(flash_array)))
        row_length == Len(flash_array[1].value)
    IN  write_rows(flash_array, 0, max_row_number, row_length, bit)

write_flash_array_to_file(flash_array, bit) ==
    LET max_row_number == Max(SeqToSet(dict_keys(flash_array)))
        number_of_rows == max_row_number + 1
        row_length == Len(flash_array[1].value)
    IN  write_rows(flash_array, 0, number_of_rows, row_length, bit)

----------------------------------------------------------------------------
(* The file format, as its writer produces it: the inputs of the model *)

hexlify(raw, digits) ==
    Concat([i \in 1..Len(raw) |-> <<digits[(raw[i] \div 16) + 1], digits[(raw[i] % 16) + 1]>>])

\* array_id, row_id and data_length (big-endian) and the data of a record.
RecordBytes(rec) ==
    <<rec.array_id, rec.row_id \div 256, rec.row_id % 256,
      Len(rec.data) \div 256, Len(rec.data) % 256>> \o rec.data

\* The byte that makes the sum of a record's bytes wrap to zero.
TwosComplement(raw) == CHOOSE c \in 0..255 : (Sum(raw) + c) % 256 = 0

EncodeRecord(rec, digits) ==
    hexlify(RecordBytes(rec) \o <<TwosComplement(RecordBytes(rec))>>, digits)

\* raw with bit k flipped (bit 0 is the lowest bit of the first byte).
FlipBit(raw, k) ==
    LET at == (k \div 8) + 1
        weight == 2 ^ (k % 8)
    IN  [raw EXCEPT ![at] = IF (raw[at] \div weight) % 2 = 1
                            THEN raw[at] - weight ELSE raw[at] + weight]

RECURSIVE Ascending(_)
Ascending(S) == IF S = {} THEN <<>> ELSE Append(Ascending(S \ {Max(S)}), Max(S))

Reverse(s) == [i \in 1..Len(s) |-> s[Len(s) + 1 - i]]

----------------------------------------------------------------------------
(* Inputs of the function calls *)

ByteSamples == {0, 1, 2, 85, 127, 128, 170, 254, 255}

UnitArrayIds == {0, 255}
UnitRowIds == {0, 256, 65535}
UnitDataBytes == {0, 170, 255}
\* A row of 256 bytes, whose length needs both bytes of data_length.
LongData == [i \in 1..256 |-> (i * 7) % 256]

UnitRecords ==
    [array_id : UnitArrayIds, row_id : UnitRowIds, data : SeqsOf(UnitDataBytes, 0, MaxDataLen)]

LongRecords == [array_id : UnitArrayIds, row_id : UnitRowIds, data : {LongData}]

\* Lines that are no record: empty, odd length, not hex, cut short.
MalformedRowLines ==
    { <<>>, <<"0">>, <<"0", "g">>, <<"x", "y">>,
      <<"0", "0">>, <<"0", "0", "0", "0", "0", "0", "0", "0">>,
      <<"0", "0", "0", "0", "0", "0", "0", "0", "0", "0">>,
      <<"0", "0", "0", "0", "0", "0", "0", "0", "0", "2", "A", "A">>,
      <<"0", "0", "0", "0", "0", "0", "0", "0", "0", "1", "A", "A">> }

HeaderByteSamples == {0, 1, 2}

MalformedHeaderLines ==
    { <<"0">>, <<"0", "0", "0", "0", "0", "0", "0", "0", "0", "0", "0">>,
      <<"0", "0", "0", "0", "0", "0", "0", "0", "0", "0", "0", "g">>,
      <<"0", "0", "0", "0", "0", "0", "0", "0", "0", "0", " ", "0", "0">>,
      <<"0", "0", "0", "0", "0", "0", "0", "0", "0", "0", "0", "0", "0">> }

----------------------------------------------------------------------------
(* Inputs of parse_cyacd *)

DriverArrayIds == {0, 1}
DriverRowIds == {0, 1, 3}
DriverData == {<<170>>, <<170, 170>>, <<187, 187>>}

DriverRecords == [array_id : DriverArrayIds, row_id : DriverRowIds, data : DriverData]

\* A row line as the file holds it: the colon, the record in hex, the newline.
RowLine(rec) == <<":">> \o EncodeRecord(rec, HexUpper) \o <<"\n">>

SampleRecord == [array_id |-> 1, row_id |-> 1, data |-> <<187>>]

\* Row lines that are not of the usual form.
OddRowLines ==
    { <<"\n">>,                                                   \* blank
      <<" ", " ", "\r", "\n">>,                                   \* whitespace only
      EncodeRecord(SampleRecord, HexLower) \o <<"\r", "\n">>,     \* no colon, lower case
      <<":">> \o EncodeRecord(SampleRecord, HexUpper) \o <<"F", "F", "\n">>,                \* bytes after the checksum
      <<" ">> \o RowLine(SampleRecord),                           \* blank before the colon
      <<":">> \o hexlify(RecordBytes(SampleRecord) \o <<0>>, HexUpper) \o <<"\n">>,  \* wrong checksum
      <<":">> \o hexlify(RecordBytes(SampleRecord), HexUpper) \o <<"\n">>,           \* no checksum
      <<":", "0", "1", "0", "0", "0", "\n">>,                     \* odd number of digits
      <<":", "0", "1", "0", "0", "0", "g", "\n">> }               \* not hex

RowLines == {RowLine(rec) : rec \in DriverRecords} \cup OddRowLines

HeaderLines ==
    { hexlify(<<30, 150, 2, 170, 0, 0>>, HexUpper) \o <<"\n">>,   \* a header
      hexlify(<<30, 150, 2, 170, 0>>, HexUpper) \o <<"\n">>,      \* five bytes
      <<"1", "E", "9", "6", "0", "2", "A", "A", "0", "0", "0", "\n">>,  \* odd number of digits
      <<"\n">> }                                                  \* blank

----------------------------------------------------------------------------
(* parse_cyacd *)

NoCall == [fn |-> "none"]

Init ==
    /\ pc = "header"
    /\ default_bit_value \in {"0", "1"}
    /\ input_read = <<>>
    /\ flash_memory = <<>>
    /\ output_file = [opened |-> FALSE, closed |-> FALSE, data |-> <<>>]
    /\ arrays_written = 0
    /\ call = NoCall

\* _print_header(input_file.readline().strip())
ReadHeader(line) ==
    /\ pc = "header"
    /\ input_read' = Append(input_read, line)
    /\ pc' = IF print_header(strip(line)).ok THEN "rows" ELSE "aborted"
    /\ UNCHANGED <<default_bit_value, flash_memory, output_file, arrays_written, call>>

\* readline() on an empty file returns b'', which is no header.
ReadHeaderAtEndOfFile ==
    /\ pc = "header"
    /\ pc' = IF print_header(strip(<<>>)).ok THEN "rows" ELSE "aborted"
    /\ UNCHANGED <<default_bit_value, input_read, flash_memory, output_file, arrays_written, call>>

\* _parse_flash_row(line.lstrip(b':').strip()) for each line the input may hold,
\* computed once.
decoded_row == [line \in RowLines |-> parse_flash_row(strip(lstrip(line, {":"})))]

\* The loop with the decode wrapped in try/except/continue: a bad line is skipped.
ReadRowSkippingErrors(line) ==
    /\ pc = "rows"
    /\ Len(input_read) - 1 < MaxLines
    /\ input_read' = Append(input_read, line)
    /\ LET parsed == decoded_row[line]
       IN  IF parsed.ok
           THEN flash_memory' = add_row_to_array(flash_memory, parsed.value.array_id,
                                                 parsed.value.row_id, parsed.value.data)
           ELSE flash_memory' = flash_memory
    /\ pc' = pc
    /\ UNCHANGED <<default_bit_value, output_file, arrays_written, call>>

\* One iteration of `for line in input_file`.
ReadRow(line) ==
    /\ pc = "rows"
    /\ Len(input_read) - 1 < MaxLines
    /\ input_read' = Append(input_read, line)
    /\ LET parsed == decoded_row[line]
       IN  IF parsed.ok
           THEN /\ flash_memory' = add_row_to_array(flash_memory, parsed.value.array_id,
                                                    parsed.value.row_id, parsed.value.data)
                /\ pc' = pc
           ELSE /\ pc' = "aborted"
                /\ flash_memory' = flash_memory
    /\ UNCHANGED <<default_bit_value, output_file, arrays_written, call>>

\* The loop ends; _write_flash_memory_to_files prints the summary, which raises
\* StopIteration on an empty memory, and opens the output file.
EndOfInput ==
    /\ pc = "rows"
    /\ IF flash_memory = <<>>
       THEN /\ pc' = "aborted"
            /\ output_file' = output_file
       ELSE /\ pc' = "write"
            /\ output_file' = [opened |-> TRUE, closed |-> FALSE, data |-> <<>>]
    /\ UNCHANGED <<default_bit_value, input_read, flash_memory, arrays_written, call>>

\* The writing loop as `for array_id in sorted(flash_memory)`.
WriteArrayInIdOrder ==
    /\ pc = "write"
    /\ arrays_written < Len(flash_memory)
    /\ LET array_id == sorted(dict_keys(flash_memory))[arrays_written + 1]
           flash_array == dict_get(flash_memory, array_id)
           written == write_flash_array_to_file(flash_array, default_bit_value)
       IN  /\ output_file' = [output_file EXCEPT !.data = @ \o written]
           /\ call' = [fn |-> "_write_flash_array_to_file", flash_array |-> flash_array,
                       default_bit_value |-> default_bit_value, written |-> written]
    /\ arrays_written' = arrays_written + 1
    /\ UNCHANGED <<pc, default_bit_value, input_read, flash_memory>>

\* One iteration of `for array_id in flash_memory`.
WriteArray ==
    /\ pc = "write"
    /\ arrays_written < Len(flash_memory)
    /\ LET flash_array == flash_memory[arrays_written + 1].value
           written == write_flash_array_to_file(flash_array, default_bit_value)
       IN  /\ output_file' = [output_file EXCEPT !.data = @ \o written]
           /\ call' = [fn |-> "_write_flash_array_to_file", flash_array |-> flash_array,
                       default_bit_value |-> default_bit_value, written |-> written]
    /\ arrays_written' = arrays_written + 1
    /\ UNCHANGED <<pc, default_bit_value, input_read, flash_memory>>

\* The loop ends and the with block closes the file.
CloseOutput ==
    /\ pc = "write"
    /\ arrays_written = Len(flash_memory)
    /\ output_file' = [output_file EXCEPT !.closed = TRUE]
    /\ pc' = "done"
    /\ UNCHANGED <<default_bit_value, input_read, flash_memory, arrays_written, call>>

Next ==
    \/ \E line \in HeaderLines : ReadHeader(line)
    \/ ReadHeaderAtEndOfFile
    \/ \E line \in RowLines : ReadRow(line)
    \/ EndOfInput
    \/ WriteArray
    \/ CloseOutput

Spec == Init /\ [][Next]_vars

----------------------------------------------------------------------------
(* The functions of the module, called one at a time *)

driver_vars == <<pc, default_bit_value, input_read, flash_memory, output_file, arrays_written>>

InitUnit ==
    /\ pc = "header"
    /\ default_bit_value = "0"
    /\ input_read = <<>>
    /\ flash_memory = <<>>
    /\ output_file = [opened |-> FALSE, closed |-> FALSE, data |-> <<>>]
    /\ arrays_written = 0
    /\ call = NoCall

CallChecksum ==
    /\ call = NoCall
    /\ \E data \in SeqsOf(ByteSamples, 0, MaxChecksumLen) :
          call' = [fn |-> "checksum", data |-> data, ret |-> checksum(data)]
    /\ UNCHANGED driver_vars

\* _parse_flash_row on the line of a record.
CallParseFlashRow ==
    /\ call = NoCall
    /\ \E rec \in UnitRecords \cup LongRecords, digits \in {HexLower, HexUpper} :
          LET ascii_line == EncodeRecord(rec, digits)
          IN  call' = [fn |-> "_parse_flash_row", record |-> rec, flipped_bit |-> -1,
                       ascii_line |-> ascii_line, ret |-> parse_flash_row(ascii_line)]
    /\ UNCHANGED driver_vars

\* _parse_flash_row on the line of a record with one bit of its fields flipped
\* and its checksum byte kept.
CallParseFlippedRow ==
    /\ call = NoCall
    /\ \E rec \in UnitRecords :
          \E bit \in 0..(8 * Len(RecordBytes(rec)) - 1) :
             LET ascii_line == hexlify(FlipBit(RecordBytes(rec), bit)
                                       \o <<TwosComplement(RecordBytes(rec))>>, HexUpper)
             IN  call' = [fn |-> "_parse_flash_row", record |-> rec, flipped_bit |-> bit,
                          ascii_line |-> ascii_line, ret |-> parse_flash_row(ascii_line)]
    /\ UNCHANGED driver_vars

CallParseMalformedRow ==
    /\ call = NoCall
    /\ \E ascii_line \in MalformedRowLines :
          call' = [fn |-> "_parse_flash_row", record |-> [array_id |-> 0, row_id |-> 0, data |-> <<>>],
                   flipped_bit |-> -2, ascii_line |-> ascii_line, ret |-> parse_flash_row(ascii_line)]
    /\ UNCHANGED driver_vars

CallPrintHeader ==
    /\ call = NoCall
    /\ \E ascii_header \in {hexlify(raw, HexUpper) : raw \in SeqsOf(HeaderByteSamples, 0, MaxHeaderBytes)}
                           \cup MalformedHeaderLines :
          call' = [fn |-> "_print_header", ascii_header |-> ascii_header,
                   ret |-> print_header(ascii_header)]
    /\ UNCHANGED driver_vars

CallGetCompactRowsString ==
    /\ call = NoCall
    /\ \E present \in (SUBSET (0..MaxSummaryRowId)) \ {{}}, descending \in BOOLEAN :
          LET row_ids == IF descending THEN Reverse(Ascending(present)) ELSE Ascending(present)
          IN  call' = [fn |-> "_get_compact_rows_string", row_ids |-> row_ids,
                       ret |-> get_compact_rows_string(row_ids)]
    /\ UNCHANGED driver_vars

NextUnit ==
    \/ CallChecksum
    \/ CallParseFlashRow
    \/ CallParseFlippedRow
    \/ CallParseMalformedRow
    \/ CallPrintHeader
    \/ CallGetCompactRowsString

SpecUnit == InitUnit /\ [][NextUnit]_vars

----------------------------------------------------------------------------
(* Reading the inputs and outputs back, for the properties *)

\* The lines of HeaderLines and RowLines that hold a well-formed header or record.
GoodHeaderLines == {hexlify(<<30, 150, 2, 170, 0, 0>>, HexUpper) \o <<"\n">>}

GoodOddRowLines ==
    { EncodeRecord(SampleRecord, HexLower) \o <<"\r", "\n">>,
      <<":">> \o EncodeRecord(SampleRecord, HexUpper) \o <<"F", "F", "\n">> }

GoodRowLines == {RowLine(rec) : rec \in DriverRecords} \cup GoodOddRowLines

\* The record a good row line was written from.
LineRecordTable ==
    [line \in GoodRowLines |->
        IF line \in GoodOddRowLines THEN SampleRecord
        ELSE CHOOSE rec \in DriverRecords : RowLine(rec) = line]

LineRecord(line) == LineRecordTable[line]

\* The positions of input_read that hold a good row line.
GoodRowPositions == {i \in 2..Len(input_read) : input_read[i] \in GoodRowLines}

IsBlank(line) == \A i \in 1..Len(line) : line[i] \in Whitespace

\* The array ids of the good row lines read, each at its first occurrence.
RECURSIVE FirstSeenFrom(_, _)
FirstSeenFrom(i, seen) ==
    IF i > Len(input_read) THEN seen
    ELSE IF i \in GoodRowPositions /\ LineRecord(input_read[i]).array_id \notin SeqToSet(seen)
    THEN FirstSeenFrom(i + 1, Append(seen, LineRecord(input_read[i]).array_id))
    ELSE FirstSeenFrom(i + 1, seen)

FirstSeenArrayIds == FirstSeenFrom(2, <<>>)

\* The first position of sep in str, or 0.
FindFirst(str, sep) ==
    LET hits == {i \in 1..(Len(str) - Len(sep) + 1) : SubSeq(str, i, i + Len(sep) - 1) = sep}
    IN  IF hits = {} THEN 0 ELSE CHOOSE i \in hits : \A j \in hits : i <= j

RECURSIVE Split(_, _)
Split(str, sep) ==
    LET k == FindFirst(str, sep)
    IN  IF k = 0 THEN <<str>>
        ELSE <<SubSeq(str, 1, k - 1)>> \o Split(SubSeq(str, k + Len(sep), Len(str)), sep)

Digits == <<"0", "1", "2", "3", "4", "5", "6", "7", "8", "9">>

\* The number a decimal numeral (no sign, no leading zero) denotes, or -1.
RECURSIVE ParseDecimal(_)
ParseDecimal(chars) ==
    IF chars = <<>> \/ \E i \in 1..Len(chars) : \A d \in 1..10 : Digits[d] # chars[i] THEN -1
    ELSE IF Len(chars) > 1 /\ chars[1] = "0" THEN -1
    ELSE LET units == (CHOOSE d \in 1..10 : Digits[d] = Last(chars)) - 1
         IN  IF Len(chars) = 1 THEN units
             ELSE 10 * ParseDecimal(SubSeq(chars, 1, Len(chars) - 1)) + units

\* 'n' read as [n, n], 'a-b' as [a, b].
ParseRun(chars) ==
    LET parts == Split(chars, <<"-">>)
    IN  IF Len(parts) = 1
        THEN [start |-> ParseDecimal(parts[1]), end |-> ParseDecimal(parts[1]), dashed |-> FALSE]
        ELSE IF Len(parts) = 2
        THEN [start |-> ParseDecimal(parts[1]), end |-> ParseDecimal(parts[2]), dashed |-> TRUE]
        ELSE [start |-> -1, end |-> -1, dashed |-> TRUE]

\* The maximal runs of consecutive members of a set of integers.
MaximalRuns(S) ==
    {run \in S \X S : /\ run[1] <= run[2]
                      /\ \A n \in run[1]..run[2] : n \in S
                      /\ (run[1] - 1) \notin S
                      /\ (run[2] + 1) \notin S}

----------------------------------------------------------------------------
(* Properties *)

\* C1: for a non-empty array whose rows all have the same length w, and either
\* fill setting, _write_flash_array_to_file writes exactly (max_row + 1) * w
\* bytes: for each row id r in 0..max_row, ascending, the w bytes at offset
\* r * w are row r's data when r is present and w copies of the fill byte
\* (0x00 for '0', 0xFF for '1') when it is not.
C1_ImageOfUniformArray ==
    call.fn = "_write_flash_array_to_file" =>
        LET rows == call.flash_array
            present == {rows[i].key : i \in 1..Len(rows)}
            widths == {Len(rows[i].value) : i \in 1..Len(rows)}
            fill == IF call.default_bit_value = "0" THEN 0 ELSE 255
        IN  (rows # <<>> /\ Cardinality(widths) = 1) =>
                LET w == CHOOSE x \in widths : TRUE
                    max_row == CHOOSE r \in present : \A q \in present : q <= r
                IN  /\ Len(call.written) = (max_row + 1) * w
                    /\ \A r \in 0..max_row :
                          LET chunk == SubSeq(call.written, r * w + 1, r * w + w)
                          IN  IF r \in present
                              THEN \E i \in 1..Len(rows) : rows[i].key = r /\ chunk = rows[i].value
                              ELSE chunk = [j \in 1..w |-> fill]

\* The array {0: AA AA, 3: BB BB} written with fill bit '1'.
C1_Witness ==
    /\ call.fn = "_write_flash_array_to_file"
    /\ call.default_bit_value = "1"
    /\ call.flash_array = <<[key |-> 3, value |-> <<187, 187>>], [key |-> 0, value |-> <<170, 170>>]>>
    /\ call.written = <<170, 170, 255, 255, 255, 255, 187, 187>>

\* C2: when the header line or a row line does not decode, parse_cyacd aborts
\* at that line and the output file is never opened or written; no output byte
\* is written before every line read has decoded.
C2_NoOutputUnlessAllDecoded ==
    LET bad(i) == IF i = 1 THEN input_read[1] \notin GoodHeaderLines
                  ELSE input_read[i] \notin GoodRowLines
    IN  /\ \A i \in 1..Len(input_read) : bad(i) => (i = Len(input_read) /\ pc = "aborted")
        /\ pc \in {"header", "rows", "aborted"} =>
              (~output_file.opened /\ output_file.data = <<>>)
        /\ (output_file.opened \/ output_file.data # <<>>) =>
              (/\ pc \in {"write", "done"}
               /\ Len(input_read) >= 1
               /\ \A i \in 1..Len(input_read) : ~bad(i))

\* Two rows assembled, then a line with a wrong checksum: aborted, nothing opened.
C2_Witness ==
    /\ pc = "aborted"
    /\ Len(input_read) = 4
    /\ Last(input_read) = <<":">> \o hexlify(RecordBytes(SampleRecord) \o <<0>>, HexUpper) \o <<"\n">>
    /\ Len(flash_memory) = 2
    /\ ~output_file.opened

\* C3: a record line with one bit of its array_id, row_id, data_length or data
\* flipped and its checksum byte kept is never accepted as a record (the claim
\* says more: that the failure is a checksum mismatch).
C3_FlippedBitIsRejected ==
    (call.fn = "_parse_flash_row" /\ call.flipped_bit >= 0) => ~call.ret.ok

\* C4: the output file is the concatenation of the arrays' images in the order
\* in which each array id first occurs in the input, whatever the interleaving
\* of the records; nothing else is written.
C4_ArraysInFirstSeenOrder ==
    pc \in {"write", "done"} =>
        /\ arrays_written <= Len(FirstSeenArrayIds)
        /\ pc = "done" => arrays_written = Len(FirstSeenArrayIds)
        /\ output_file.data =
              Concat([i \in 1..arrays_written |->
                         write_flash_array_to_file(dict_get(flash_memory, FirstSeenArrayIds[i]),
                                                   default_bit_value)])

\* Array 1, then array 0, then array 1 again: array 1's image comes first.
C4_Witness ==
    /\ pc = "done"
    /\ Len(input_read) = 4
    /\ GoodRowPositions = {2, 3, 4}
    /\ LineRecord(input_read[2]).array_id = 1
    /\ LineRecord(input_read[3]).array_id = 0
    /\ LineRecord(input_read[4]).array_id = 1
    /\ LineRecord(input_read[4]).row_id # LineRecord(input_read[2]).row_id
    /\ FirstSeenArrayIds = <<1, 0>>

\* C5: the line built from array_id, row_id, len(data), data and the
\* two's-complement checksum of those bytes decodes, to exactly that array_id,
\* row_id and data.
C5_RoundTrip ==
    (call.fn = "_parse_flash_row" /\ call.flipped_bit = -1) =>
        /\ call.ret.ok
        /\ call.ret.value.array_id = call.record.array_id
        /\ call.ret.value.row_id = call.record.row_id
        /\ call.ret.value.data = call.record.data

\* A record whose row id and data length both need two bytes.
C5_Witness ==
    /\ call.fn = "_parse_flash_row"
    /\ call.flipped_bit = -1
    /\ call.record.row_id = 65535
    /\ Len(call.record.data) = 256
    /\ call.ret.ok
    /\ Len(call.ret.value.data) = 256

\* C6: for any byte sequence b, the empty one included, the checksum c of b is
\* a byte and (sum(b) + c) mod 0x100 = 0.
C6_ChecksumWrapsToZero ==
    call.fn = "checksum" =>
        /\ call.ret \in 0..255
        /\ (Sum(call.data) + call.ret) % 256 = 0

\* A sum beyond one byte that is a multiple of 0x100.
C6_Witness ==
    /\ call.fn = "checksum"
    /\ Sum(call.data) = 512
    /\ call.ret = 0

\* C7: the header decoder accepts a line exactly when it is hex, decodes to 6
\* bytes and has a checksum-type byte of 0 or 1.
C7_HeaderAcceptedIffWellFormed ==
    call.fn = "_print_header" =>
        (call.ret.ok <=>
            /\ Len(call.ascii_header) = 12
            /\ \A i \in 1..12 : \E d \in 1..16 :
                  call.ascii_header[i] \in {HexLower[d], HexUpper[d]}
            /\ call.ascii_header[11] = "0"
            /\ call.ascii_header[12] \in {"0", "1"})

\* C8: for a non-empty list of distinct row ids, _get_compact_rows_string is
\* the maximal runs of consecutive ids, ascending, joined by ', ', a run of one
\* id written 'n' and a longer one 'start-end'.
C8_CompactRowsAreMaximalRuns ==
    call.fn = "_get_compact_rows_string" =>
        LET present == SeqToSet(call.row_ids)
            parts == Split(call.ret, <<",", " ">>)
            runs == [i \in 1..Len(parts) |-> ParseRun(parts[i])]
        IN  /\ {<<runs[i].start, runs[i].end>> : i \in 1..Len(runs)} = MaximalRuns(present)
            /\ \A i \in 1..(Len(runs) - 1) : runs[i].end < runs[i + 1].start
            /\ \A i \in 1..Len(runs) : runs[i].dashed <=> (runs[i].start < runs[i].end)

\* {0, 1, 2, 5, 7, 8, 9}, given in descending order, is '0-2, 5, 7-9'.
C8_Witness ==
    /\ call.fn = "_get_compact_rows_string"
    /\ call.row_ids = <<9, 8, 7, 5, 2, 1, 0>>
    /\ call.ret = <<"0", "-", "2", ",", " ", "5", ",", " ", "7", "-", "9">>

\* C9: the assembled memory is a function of the records read: its array ids
\* are those that occurred, each array's row ids are those that occurred for
\* it (no array is empty), and each (array_id, row_id) holds the data of the
\* last record with that key.
C9_MemoryIsFunctionOfRecords ==
    LET rec(i) == LineRecord(input_read[i])
        last(a, r) == CHOOSE i \in GoodRowPositions :
                         /\ rec(i).array_id = a /\ rec(i).row_id = r
                         /\ \A j \in GoodRowPositions :
                               (rec(j).array_id = a /\ rec(j).row_id = r) => j <= i
    IN  /\ \A k, m \in 1..Len(flash_memory) : flash_memory[k].key = flash_memory[m].key => k = m
        /\ SeqToSet(dict_keys(flash_memory)) = {rec(i).array_id : i \in GoodRowPositions}
        /\ \A k \in 1..Len(flash_memory) :
              LET a == flash_memory[k].key
                  rows == flash_memory[k].value
              IN  /\ rows # <<>>
                  /\ \A m, n \in 1..Len(rows) : rows[m].key = rows[n].key => m = n
                  /\ SeqToSet(dict_keys(rows)) =
                        {rec(i).row_id : i \in {j \in GoodRowPositions : rec(j).array_id = a}}
                  /\ \A m \in 1..Len(rows) : rows[m].value = rec(last(a, rows[m].key)).data

\* A row written twice with different data, and another array in between.
C9_Witness ==
    /\ pc = "rows"
    /\ Len(input_read) = 4
    /\ GoodRowPositions = {2, 3, 4}
    /\ LineRecord(input_read[2]) = [array_id |-> 0, row_id |-> 1, data |-> <<170>>]
    /\ LineRecord(input_read[3]).array_id = 1
    /\ LineRecord(input_read[4]) = [array_id |-> 0, row_id |-> 1, data |-> <<187, 187>>]
    /\ dict_get(dict_get(flash_memory, 0), 1) = <<187, 187>>

\* C10: a blank line after the header is skipped: reading it leaves the memory
\* unchanged and the conversion goes on.
C10_BlankLineIsSkipped ==
    [][(/\ pc = "rows"
        /\ Len(input_read') = Len(input_read) + 1
        /\ IsBlank(input_read'[Len(input_read')]))
       => (flash_memory' = flash_memory /\ pc' = "rows")]_vars

====
